---- MODULE Spec2Model ----
(***************************************************************************)
(* A model of the two backends of browser-fs/dom.                          *)
(*                                                                         *)
(* WorkerFS (src/src/backends/Worker.ts), the client side of the RPC       *)
(* bridge.  State: _currentID, _requests, _metadata, _isInitialized.       *)
(* Actions: _rpc (every public operation is one call of it) and onmessage, *)
(* the handler the constructor installs.  Specification: SpecWorker.       *)
(*                                                                         *)
(* FileSystemAccessFileSystem (src/src/backends/FileSystemAccess.ts), the  *)
(* handle cache _handles over an externally owned handle tree.  Actions:   *)
(* the public operations, a resolution on its own (getHandle), and the     *)
(* answers to the handle requests of walks nobody awaits.  Specifications: *)
(* SpecFSA (resolution, stat, exists, openFile, readdir, writeFile,        *)
(* unlink, mkdir), SpecRename (rename, step by step, with the close it     *)
(* does not await), SpecCache (every operation that resolves a path or     *)
(* changes the tree) and SpecSync (the file wrapper and its sync).         *)
(***************************************************************************)
EXTENDS Integers, Sequences, FiniteSets, TLC

\* ------------------------------------------------------------------ bounds
\* Calls of public WorkerFS operations in one behaviour.
MaxCalls == 2
\* Messages delivered to the onmessage handler in one behaviour.
MaxMsgs == 2

\* ================================================================ WorkerFS

VARIABLES
    _currentID,      \* Worker.ts:111  next correlation id
    _requests,       \* Worker.ts:112  Map<number, WorkerRequest>: id -> promise
    _isInitialized,  \* Worker.ts:114
    _metadata,       \* Worker.ts:115  undefined until a metadata message
    promises,        \* the promises _rpc returned, by call number
    posted,          \* what _worker.postMessage has been given, in order
    event,           \* the MessageEvent data of the last onmessage run
    nDelivered,      \* how many times onmessage has run
    raised,          \* whether the last onmessage run threw
    removedBy,       \* id -> the onmessage runs that deleted it from _requests
    nMetadata        \* how many onmessage runs took the metadata branch

wvars == <<_currentID, _requests, _isInitialized, _metadata, promises, posted,
           event, nDelivered, raised, removedBy, nMetadata>>

\* The state of a FileSystemAccessFileSystem and of the handle tree under it.
VARIABLES
    tree,        \* the handle tree behind the root handle: path -> entry
    clock,       \* the tree's time, stamped on a file by each write
    _handles,    \* FileSystemAccess.ts:59  Map<string, FileSystemHandle>
    walks,       \* getHandleParts calls nobody awaits, each at its handle request
    unhandled,   \* errors of rejected promises nobody awaits
    nextHid,     \* identity of the next handle object the API hands out
    pc,          \* where the caller's operation is suspended ("idle": nowhere)
    frame,       \* the suspended operation's arguments and locals
    last,        \* the operation that completed last, with its outcome
    prev,        \* the one that completed before it
    nOps,        \* operations started
    closing,     \* writable.close() calls nobody awaits, not yet committed
    stack,       \* the rename calls in progress, the innermost first
    ren,         \* the rename started last: its arguments and what src held
    file         \* the FileSystemAccessFile that openFile returned last

\* What only rename changes.
rvars == <<closing, stack, ren>>

fvars == <<tree, clock, _handles, walks, unhandled, nextHid, pc, frame, last, prev, nOps,
           rvars, file>>

vars == <<wvars, fvars>>

\* --- values that travel in messages
\* A JavaScript value, as far as the handler looks at it: its class (what
\* instanceof sees) and, for a metadata record, the two fields the metadata
\* getter overrides.
Value(t, name, synchronous) == [t |-> t, name |-> name, synchronous |-> synchronous]

Undefined == Value("undefined", "", FALSE)

Values ==
    { Value("Object", "InMemory", TRUE),
      Value("Object", "WorkerFS", FALSE),
      Value("Error", "", FALSE),
      Value("ApiError", "", FALSE) }

\* Operation names of the request schema (Worker.ts:168-228) and the tag of
\* the unsolicited announcement.
Methods == {"stat", "readdir"}

MethodTags == Methods \cup {"metadata"}

\* Correlation ids a message can carry: every id the bridge can issue within
\* the bounds, one it never issues, and none at all (undefined).
NoId == -1

Ids == 0 .. MaxCalls

\* event.data.  shape: what typeof and the null check see; isBFS: the marker
\* field, absent, present and falsy, or truthy.
Message(shape, isBFS, id, method, value) ==
    [shape |-> shape, isBFS |-> isBFS, id |-> id, method |-> method, value |-> value]

NoMessage == Message("none", "absent", NoId, "stat", Undefined)

Messages ==
    { Message("string", "absent", NoId, "stat", Undefined),
      Message("null", "absent", NoId, "stat", Undefined) }
    \cup
    { Message("object", b, i, m, v) :
        b \in {"absent", "falsy", "truthy"}, i \in Ids \cup {NoId},
        m \in MethodTags, v \in Values }

\* Worker.ts:40-42.  typeof null is 'object', and ('isBFS' in null) throws.
isRPCMessageThrows(arg) == arg.shape = "null"

isRPCMessageNoMarkerCheck(arg) == arg.shape = "object" /\ arg.isBFS # "absent"

isRPCMessage(arg) == arg.shape = "object" /\ arg.isBFS = "truthy"

\* Worker.ts:138
isErrorValueApiOnly(value) == value.t = "ApiError"

isErrorValue(value) == value.t \in {"Error", "ApiError"}

\* Worker.ts:157  const id = this._currentID++
NextIDStuck(id) == id

NextID(id) == id + 1

\* Worker.ts:136  this._requests.get(id)
OldestPending(reqs, id) ==
    IF DOMAIN reqs = {} THEN id
    ELSE CHOOSE i \in DOMAIN reqs : \A j \in DOMAIN reqs : i <= j

LookupKey(reqs, id) == id

\* Worker.ts:130  method === 'metadata'
isMetadataOnce(method, initialized) == method = "metadata" /\ ~initialized

isMetadata(method, initialized) == method = "metadata"

\* A promise as _rpc creates it (Worker.ts:156): pending, settled by the
\* first call of resolve or reject.  settles counts those calls.
NewPromise(method) ==
    [state |-> "pending", value |-> Undefined, method |-> method, settles |-> 0]

NoPromise == [state |-> "none", value |-> Undefined, method |-> "", settles |-> 0]

Settle(p, how, value) ==
    IF p.state = "pending"
    THEN [p EXCEPT !.state = how, !.value = value, !.settles = 1]
    ELSE [p EXCEPT !.settles = @ + 1]

Without(f, k) == [x \in (DOMAIN f) \ {k} |-> f[x]]

With(f, k, v) == [x \in (DOMAIN f) \cup {k} |-> IF x = k THEN v ELSE f[x]]

\* Object spread (Worker.ts:148-149): the own fields of source are copied over
\* those of target; undefined and an Error have neither of the two fields.
Spread(target, source) ==
    IF source.t = "Object"
    THEN [target EXCEPT !.name = source.name, !.synchronous = source.synchronous]
    ELSE target

\* super.metadata, as far as the getter's result depends on it: an object
\* with some name and some synchronous flag, which the getter overrides.
SuperMetadata == Value("Object", "BaseFileSystem", FALSE)

\* Worker.ts:146-153  get metadata()
metadataStoredLast(stored) ==
    Spread([SuperMetadata EXCEPT !.name = "WorkerFS", !.synchronous = FALSE], stored)

metadata(stored) ==
    [Spread(SuperMetadata, stored) EXCEPT !.name = "WorkerFS", !.synchronous = FALSE]

InitWorker ==
    /\ _currentID = 0
    /\ _requests = << >>
    /\ _isInitialized = FALSE
    /\ _metadata = Undefined
    /\ promises = [k \in 1 .. MaxCalls |-> NoPromise]
    /\ posted = << >>
    /\ event = NoMessage
    /\ nDelivered = 0
    /\ raised = FALSE
    /\ removedBy = [i \in Ids |-> {}]
    /\ nMetadata = 0

\* Worker.ts:155-166, called by every public operation (Worker.ts:168-228).
\* The k-th call creates promise k.
_rpc(method) ==
    /\ Len(posted) < MaxCalls
    /\ LET id == _currentID
           k == Len(posted) + 1
       IN /\ _currentID' = NextID(_currentID)
          /\ _requests' = With(_requests, id, k)
          /\ promises' = [promises EXCEPT ![k] = NewPromise(method)]
          /\ posted' = Append(posted, [isBFS |-> TRUE, id |-> id, method |-> method])
    /\ UNCHANGED <<_isInitialized, _metadata, event, nDelivered, raised, removedBy,
                   nMetadata>>
    /\ UNCHANGED fvars

\* Worker.ts:124-143, one run of the handler on event.data = data.
onmessage(data) ==
    /\ nDelivered < MaxMsgs
    /\ event' = data
    /\ nDelivered' = nDelivered + 1
    /\ UNCHANGED <<_currentID, posted>>
    /\ UNCHANGED fvars
    /\ IF isRPCMessageThrows(data)
       THEN \* 'isBFS' in null: TypeError out of the handler
            /\ raised' = TRUE
            /\ UNCHANGED <<_requests, _isInitialized, _metadata, promises, removedBy,
                           nMetadata>>
       ELSE IF ~isRPCMessage(data)
       THEN \* Worker.ts:125-127
            /\ raised' = FALSE
            /\ UNCHANGED <<_requests, _isInitialized, _metadata, promises, removedBy,
                           nMetadata>>
       ELSE IF isMetadata(data.method, _isInitialized)
       THEN \* Worker.ts:130-134
            /\ _metadata' = data.value
            /\ _isInitialized' = TRUE
            /\ raised' = FALSE
            /\ nMetadata' = nMetadata + 1
            /\ UNCHANGED <<_requests, promises, removedBy>>
       ELSE LET key == LookupKey(_requests, data.id) IN
            IF key \notin DOMAIN _requests
            THEN \* Worker.ts:136: destructuring undefined throws, before delete
                 /\ raised' = TRUE
                 /\ UNCHANGED <<_requests, _isInitialized, _metadata, promises, removedBy,
                           nMetadata>>
            ELSE \* Worker.ts:136-142
                 /\ _requests' = Without(_requests, key)
                 /\ removedBy' = [removedBy EXCEPT ![key] =
                        @ \cup {[run |-> nDelivered + 1, id |-> data.id]}]
                 /\ promises' = [promises EXCEPT ![_requests[key]] =
                        Settle(@, IF isErrorValue(data.value) THEN "rejected" ELSE "resolved",
                               data.value)]
                 /\ raised' = FALSE
                 /\ UNCHANGED <<_isInitialized, _metadata, nMetadata>>

Call == \E m \in Methods : _rpc(m)

Deliver == \E data \in Messages : onmessage(data)

NextWorker == Call \/ Deliver

\* ============================================== FileSystemAccessFileSystem
\* One caller runs one operation at a time and awaits it.  An operation is one
\* action up to the point where it waits for a request that changes the tree
\* while a walk it started or a close it issued is still running (mkdir,
\* rename); the getHandleParts calls that getHandle leaves unawaited
\* (FileSystemAccess.ts:224) are answered by WalkStep, at any later time.

\* Operations the caller starts in one behaviour.
MaxOps == 3
\* Longest path, in segments.
MaxDepth == 2


\* --- paths (FileSystemAccess.ts:1): a path is the sequence of its segments,
\* '/' the empty one.
Names == {"a", "b"}

RECURSIVE PathsOfLen(_)
PathsOfLen(n) ==
    IF n = 0 THEN {<< >>}
    ELSE {Append(p, x) : p \in PathsOfLen(n - 1), x \in Names}

Paths == UNION {PathsOfLen(n) : n \in 0 .. MaxDepth}

Root == << >>

join(path, name) == Append(path, name)

dirname(path) == IF path = Root THEN Root ELSE SubSeq(path, 1, Len(path) - 1)

basename(path) == IF path = Root THEN "" ELSE path[Len(path)]

IsPrefix(p, q) == Len(p) <= Len(q) /\ SubSeq(q, 1, Len(p)) = p

\* --- the handle tree (the File System Access API behind the root handle)
\* File contents are byte sequences.
Data == {<<1>>, <<2, 3>>}

InitialData == <<104, 105>>

NoEntry == [kind |-> "none", data |-> << >>, mtime |-> 0]

DirEntry == [kind |-> "dir", data |-> << >>, mtime |-> 0]

FileEntry(data, mtime) == [kind |-> "file", data |-> data, mtime |-> mtime]

KindAt(t, path) == IF path \in DOMAIN t THEN t[path].kind ELSE "none"

MakeTree(dirs, files) ==
    [p \in Paths |->
        IF p = Root \/ p \in dirs THEN DirEntry
        ELSE IF p \in files THEN FileEntry(InitialData, 1)
        ELSE NoEntry]

\* The trees a file system is constructed over.
InitTrees ==
    { MakeTree({}, {}),
      MakeTree({}, {<<"a">>}),
      MakeTree({<<"a">>, <<"a", "b">>}, {<<"b">>, <<"a", "a">>}) }

\* --- handles and errors
\* A handle object: the place it names, its class, and which object it is.
Handle(path, kind, id) == [path |-> path, kind |-> kind, id |-> id]

NoHandle == Handle(Root, "undefined", 0)

Err(code, path) == [code |-> code, path |-> path]

NoError == Err("none", Root)

\* FileSystemAccess.ts:23-29
handleError(path, error) ==
    IF error.code = "NotFoundError" THEN Err("ENOENT", path) ELSE error

\* handle.getDirectoryHandle(name) / handle.getFileHandle(name), without
\* create: the error the API rejects with, or NoError.  A handle whose own
\* entry is gone rejects with NotFoundError.
ApiGetError(t, on, name, want) ==
    LET child == join(on.path, name) IN
    IF KindAt(t, on.path) # "dir" THEN Err("NotFoundError", child)
    ELSE IF KindAt(t, child) = "none" THEN Err("NotFoundError", child)
    ELSE IF KindAt(t, child) # want THEN Err("TypeMismatchError", child)
    ELSE NoError

\* --- getHandle (FileSystemAccess.ts:207-246)
\* What one run of the walk hands back: the error it throws (or NoError),
\* the cache, the getHandleParts calls it left running, the rejections
\* nobody will see, the next handle identity, and the handle requests made.
WalkOut(err, handles, started, dropped, hid, calls) ==
    [err |-> err, handles |-> handles, walks |-> started, unhandled |-> dropped,
     hid |-> hid, calls |-> calls]

\* A getHandleParts call suspended at its handle request
\* (FileSystemAccess.ts:214-215, 226, 229): the handle read from the cache
\* under walkedPath, the segment asked for, and the segments after it.
Walk(on, walked, part, rest) ==
    [on |-> on, walked |-> walked, part |-> part, rest |-> rest]

\* FileSystemAccess.ts:224: getHandleParts(remainingPathParts), neither
\* awaited nor returned.  It runs up to its first handle request; on a file
\* handle there is no getDirectoryHandle, the call throws a TypeError and the
\* promise nobody holds is rejected.
StartWalk(cache, walked, parts, hid) ==
    LET on == cache[walked] IN
    IF on.kind = "dir"
    THEN WalkOut(NoError, cache, {Walk(on, walked, Head(parts), Tail(parts))}, {}, hid, 1)
    ELSE WalkOut(NoError, cache, {}, {"TypeError"}, hid, 0)

\* FileSystemAccess.ts:216-225
continueWalkEvicting(cache, walkingPath, handle, rest, hid) ==
    LET kept == [p \in {q \in DOMAIN cache : IsPrefix(q, walkingPath)} |-> cache[p]]
        cached == With(kept, walkingPath, handle)
    IN  IF rest = << >>
        THEN WalkOut(NoError, cached, {}, {}, hid, 0)
        ELSE StartWalk(cached, walkingPath, rest, hid)

continueWalk(cache, walkingPath, handle, rest, hid) ==
    LET cached == With(cache, walkingPath, handle) IN
    IF rest = << >>
    THEN WalkOut(NoError, cached, {}, {}, hid, 0)
    ELSE StartWalk(cached, walkingPath, rest, hid)

\* FileSystemAccess.ts:228-242: the handle request of walk w answers, in
\* tree t.  After a TypeMismatchError the getFileHandle request is answered
\* from the same tree: only the caller's own operations change the tree, and
\* a walk answered wholly before or wholly after one of them covers both
\* orders.
ResolveWalk(t, cache, w, hid) ==
    LET walkingPath == join(w.walked, w.part)
        e1 == ApiGetError(t, w.on, w.part, "dir")
        e2 == ApiGetError(t, w.on, w.part, "file")
    IN  IF e1 = NoError
        THEN continueWalk(cache, walkingPath, Handle(walkingPath, "dir", hid), w.rest, hid + 1)
        ELSE IF e1.code = "TypeMismatchError"
        THEN IF e2 = NoError
             THEN LET c == continueWalk(cache, walkingPath,
                                        Handle(walkingPath, "file", hid), w.rest, hid + 1)
                  IN [c EXCEPT !.calls = @ + 1]
             ELSE WalkOut(handleError(walkingPath, e2), cache, {}, {}, hid, 1)
        ELSE WalkOut(handleError(walkingPath, e1), cache, {}, {}, hid, 0)

\* FileSystemAccess.ts:245: await getHandleParts(pathParts), with no return:
\* a walk that succeeds hands back undefined.
WalkedHandle(cache, path) == NoHandle

\* FileSystemAccess.ts:212: let walkedPath = '/'
WalkStart(cache, path) == Root

\* FileSystemAccess.ts:207-246.  ret is what the caller's await yields.
getHandle(t, cache, path, hid) ==
    IF path \in DOMAIN cache
    THEN [ret |-> cache[path], out |-> WalkOut(NoError, cache, {}, {}, hid, 0)]
    ELSE LET from == WalkStart(cache, path)
             parts == SubSeq(path, Len(from) + 1, Len(path))
             out == ResolveWalk(t, cache,
                                Walk(cache[from], from, Head(parts), Tail(parts)), hid)
             made == [out EXCEPT !.calls = @ + 1]
         IN [ret |-> IF out.err = NoError THEN WalkedHandle(out.handles, path) ELSE NoHandle,
             out |-> made]

\* --- what an operation hands back
\* A uniform record for every return value: undefined, a handle (getHandle),
\* a Stats (stat), a file wrapper (openFile), a boolean (exists), a listing
\* (readdir).
Ret(t, h, size, mtime, data, items) ==
    [t |-> t, h |-> h, size |-> size, mtime |-> mtime, data |-> data, items |-> items]

RetUndefined == Ret("undefined", NoHandle, 0, 0, << >>, {})

RetHandle(h) == IF h = NoHandle THEN RetUndefined ELSE Ret("handle", h, 0, 0, << >>, {})

\* FileSystemAccess.ts:136: new Stats(FileType.DIRECTORY, 4096)
DirectorySize == 4096

StatsDirectory == Ret("DIRECTORY", NoHandle, DirectorySize, 0, << >>, {})

\* FileSystemAccess.ts:139-140
StatsFile(entry) == Ret("FILE", NoHandle, Len(entry.data), entry.mtime, << >>, {})

\* FileSystemAccess.ts:156-158, 203-205
newFile(entry) == Ret("File", NoHandle, Len(entry.data), entry.mtime, entry.data, {})

RetBool(b) == Ret(IF b THEN "true" ELSE "false", NoHandle, 0, 0, << >>, {})

RetList(items) == Ret("list", NoHandle, 0, 0, << >>, items)

\* What was the case when the operation started: the kind of the entry at
\* its path and at the parent, and whether the cache held them.
Pre(path) ==
    [kind |-> KindAt(tree, path), parentKind |-> KindAt(tree, dirname(path)),
     cached |-> path \in DOMAIN _handles,
     parentCached |-> dirname(path) \in DOMAIN _handles]

Outcome(op, path, data, mode, pre, err, ret, calls) ==
    [op |-> op, path |-> path, data |-> data, mode |-> mode, pre |-> pre,
     status |-> IF err = NoError THEN "ok" ELSE "error",
     err |-> err, ret |-> ret, calls |-> calls]

NoOutcome ==
    [op |-> "none", path |-> Root, data |-> << >>, mode |-> "none",
     pre |-> [kind |-> "none", parentKind |-> "none", cached |-> FALSE,
              parentCached |-> FALSE],
     status |-> "none", err |-> NoError, ret |-> RetUndefined, calls |-> 0]

NoFrame == [path |-> Root, mode |-> "none", pre |-> NoOutcome.pre, parent |-> NoHandle,
            calls |-> 0]

\* The tree without the entry at path and everything below it
\* (removeEntry(name, { recursive: true })).
RemoveSubtree(t, path) == [p \in DOMAIN t |-> IF IsPrefix(path, p) THEN NoEntry ELSE t[p]]

\* --- rename (FileSystemAccess.ts:80-112)
\* One call of rename that is suspended: its arguments, the children still
\* to be moved (the paths readdir returned), where it waits, and the handle
\* the pending request was made on.  stage "mkdir": the request that creates
\* the destination directory; "child": the next round of the loop;
\* "unlink": the unlink(oldPath) that follows.
RenameFrame(oldPath, newPath, files, stage, parent) ==
    [oldPath |-> oldPath, newPath |-> newPath, files |-> files, stage |-> stage,
     parent |-> parent]

NoRenameFrame == RenameFrame(Root, Root, {}, "none", NoHandle)

\* Every entry below path, by its path relative to path.
Under(t, path) ==
    { [rel |-> SubSeq(p, Len(path) + 1, Len(p)), entry |-> t[p]] :
        p \in {q \in DOMAIN t : IsPrefix(path, q) /\ q # path /\ t[q].kind # "none"} }

\* The arguments of a rename and what was at src when it started.
Rename(src, dst, entry, under) == [src |-> src, dst |-> dst, entry |-> entry, under |-> under]

NoRename == Rename(Root, Root, NoEntry, {})

\* A writable.close() in flight (FileSystemAccess.ts:105): the file it
\* commits to, the bytes written to the stream, and the file they were read
\* from.
Close(path, data, src) == [path |-> path, data |-> data, src |-> src]

\* --- the file wrapper (FileSystemAccess.ts:31-46, 203-205)
\* A FileSystemAccessFile, as far as sync looks at it: getPath(),
\* getBuffer(), the mtime of getStats() and isDirty().  Buffer, stats and
\* dirty flag are kept by the base class PreloadFile, which is not part of
\* this repository: a write replaces the buffer and marks the file dirty, and
\* the stats keep the modification time the file was opened with.
Wrapper(path, buffer, mtime, dirty) ==
    [path |-> path, buffer |-> buffer, mtime |-> mtime, dirty |-> dirty, open |-> TRUE]

NoFile == [path |-> Root, buffer |-> << >>, mtime |-> 0, dirty |-> FALSE, open |-> FALSE]

InitFSOver(trees) ==
    /\ tree \in trees
    /\ clock = 1
    /\ _handles = [p \in {Root} |-> Handle(Root, "dir", 0)]
    /\ walks = {}
    /\ unhandled = {}
    /\ nextHid = 1
    /\ pc = "idle"
    /\ frame = NoFrame
    /\ last = NoOutcome
    /\ prev = NoOutcome
    /\ nOps = 0
    /\ closing = {}
    /\ stack = << >>
    /\ ren = NoRename
    /\ file = NoFile

\* An operation starts only when the caller's previous one has completed.
CanStart == pc = "idle" /\ nOps < MaxOps /\ UNCHANGED wvars

\* The cache, the unawaited walks and the handle counter after a getHandle.
Walked(out) ==
    /\ _handles' = out.handles
    /\ walks' = walks \cup out.walks
    /\ unhandled' = unhandled \cup out.unhandled
    /\ nextHid' = out.hid

Completes(outcome) ==
    /\ prev' = last
    /\ last' = outcome
    /\ pc' = "idle"
    /\ frame' = NoFrame

\* A getHandleParts call nobody awaits gets the answer to its handle request
\* (FileSystemAccess.ts:224, 228-242); what it throws goes nowhere.
WalkStep(w) ==
    /\ w \in walks
    /\ \E out \in {ResolveWalk(tree, _handles, w, nextHid)} :
       /\ _handles' = out.handles
       /\ walks' = (walks \ {w}) \cup out.walks
       /\ unhandled' = unhandled \cup out.unhandled \cup
                          (IF out.err = NoError THEN {} ELSE {out.err.code})
       /\ nextHid' = out.hid
    /\ UNCHANGED <<tree, clock, pc, frame, last, prev, nOps, rvars, file>>
    /\ UNCHANGED wvars

\* FileSystemAccess.ts:207-246, one resolution on its own.
ResolveOp(path) ==
    /\ CanStart
    /\ nOps' = nOps + 1
    /\ UNCHANGED <<rvars, file>>
    /\ \E g \in {getHandle(tree, _handles, path, nextHid)} :
       /\ Walked(g.out)
       /\ Completes(Outcome("getHandle", path, << >>, "none", Pre(path), g.out.err,
                            RetHandle(g.ret), g.out.calls))
    /\ UNCHANGED <<tree, clock>>

\* FileSystemAccess.ts:130-142
stat(path) ==
    /\ CanStart
    /\ nOps' = nOps + 1
    /\ UNCHANGED <<rvars, file>>
    /\ \E g \in {getHandle(tree, _handles, path, nextHid)} :
       LET handle == g.ret
           err == IF g.out.err # NoError THEN g.out.err
                  ELSE IF handle = NoHandle THEN Err("EINVAL", path)
                  ELSE IF handle.kind = "file" /\ KindAt(tree, handle.path) # "file"
                  THEN Err("NotFoundError", handle.path)
                  ELSE NoError
           ret == IF err # NoError THEN RetUndefined
                  ELSE IF handle.kind = "dir" THEN StatsDirectory
                  ELSE StatsFile(tree[handle.path])
       IN /\ Walked(g.out)
          /\ Completes(Outcome("stat", path, << >>, "none", Pre(path), err, ret, g.out.calls))
    /\ UNCHANGED <<tree, clock>>

\* FileSystemAccess.ts:144-151
exists(p) ==
    /\ CanStart
    /\ nOps' = nOps + 1
    /\ UNCHANGED <<rvars, file>>
    /\ \E g \in {getHandle(tree, _handles, p, nextHid)} :
       /\ Walked(g.out)
       /\ Completes(Outcome("exists", p, << >>, "none", Pre(p), NoError,
                            RetBool(g.out.err = NoError), g.out.calls))
    /\ UNCHANGED <<tree, clock>>

\* FileSystemAccess.ts:153-160
openFile(path) ==
    /\ CanStart
    /\ nOps' = nOps + 1
    /\ UNCHANGED rvars
    /\ \E g \in {getHandle(tree, _handles, path, nextHid)} :
       LET handle == g.ret
           isFile == handle.kind = "file"
           err == IF g.out.err # NoError THEN g.out.err
                  ELSE IF isFile /\ KindAt(tree, handle.path) # "file"
                  THEN Err("NotFoundError", handle.path)
                  ELSE NoError
           ret == IF err = NoError /\ isFile THEN newFile(tree[handle.path])
                  ELSE RetUndefined
       IN /\ Walked(g.out)
          /\ file' = IF ret.t = "File" THEN Wrapper(path, ret.data, ret.mtime, FALSE)
                     ELSE file
          /\ Completes(Outcome("openFile", path, << >>, "none", Pre(path), err, ret,
                               g.out.calls))
    /\ UNCHANGED <<tree, clock>>

\* FileSystemAccess.ts:191-201
readdir(path) ==
    /\ CanStart
    /\ nOps' = nOps + 1
    /\ UNCHANGED <<rvars, file>>
    /\ \E g \in {getHandle(tree, _handles, path, nextHid)} :
       LET handle == g.ret
           err == IF g.out.err # NoError THEN g.out.err
                  ELSE IF handle.kind # "dir" THEN Err("ENOTDIR", path)
                  ELSE IF KindAt(tree, handle.path) # "dir"
                  THEN Err("NotFoundError", handle.path)
                  ELSE NoError
           keys == {n \in Names : KindAt(tree, join(handle.path, n)) # "none"}
           ret == IF err = NoError THEN RetList({join(path, key) : key \in keys})
                  ELSE RetUndefined
       IN /\ Walked(g.out)
          /\ Completes(Outcome("readdir", path, << >>, "none", Pre(path), err, ret,
                               g.out.calls))
    /\ UNCHANGED <<tree, clock>>

\* handle.getFileHandle(name, { create: true }) /
\* handle.getDirectoryHandle(name, { create: true }): the error, or NoError.
ApiCreateError(t, on, name, want) ==
    LET child == join(on.path, name) IN
    IF KindAt(t, on.path) # "dir" THEN Err("NotFoundError", child)
    ELSE IF KindAt(t, child) \notin {"none", want} THEN Err("TypeMismatchError", child)
    ELSE NoError

\* FileSystemAccess.ts:114-123.  The parent's handle comes from the cache or
\* not at all, so no walk is left running when the file is written.
writeFile(fname, data) ==
    /\ CanStart
    /\ nOps' = nOps + 1
    /\ UNCHANGED <<rvars, file>>
    /\ \E g \in {getHandle(tree, _handles, dirname(fname), nextHid)} :
       LET handle == g.ret
           writes == g.out.err = NoError /\ handle.kind = "dir"
           err == IF g.out.err # NoError THEN g.out.err
                  ELSE IF writes THEN ApiCreateError(tree, handle, basename(fname), "file")
                  ELSE NoError
           target == join(handle.path, basename(fname))
       IN /\ Walked([g.out EXCEPT !.hid = IF writes /\ err = NoError THEN @ + 1 ELSE @])
          /\ IF writes /\ err = NoError
             THEN /\ tree' = [tree EXCEPT ![target] = FileEntry(data, clock + 1)]
                  /\ clock' = clock + 1
             ELSE UNCHANGED <<tree, clock>>
          /\ Completes(Outcome("writeFile", fname, data, "none", Pre(fname), err,
                               RetUndefined, g.out.calls + (IF writes THEN 1 ELSE 0)))

\* FileSystemAccess.ts:162-171
unlink(path) ==
    /\ CanStart
    /\ nOps' = nOps + 1
    /\ UNCHANGED <<rvars, file>>
    /\ \E g \in {getHandle(tree, _handles, dirname(path), nextHid)} :
       LET handle == g.ret
           removes == g.out.err = NoError /\ handle.kind = "dir"
           target == join(handle.path, basename(path))
           err == IF g.out.err # NoError THEN g.out.err
                  ELSE IF removes /\ (KindAt(tree, handle.path) # "dir"
                                      \/ KindAt(tree, target) = "none")
                  THEN handleError(path, Err("NotFoundError", target))
                  ELSE NoError
       IN /\ Walked(g.out)
          /\ tree' = IF removes /\ err = NoError THEN RemoveSubtree(tree, target) ELSE tree
          /\ Completes(Outcome("unlink", path, << >>, "none", Pre(path), err,
                               RetUndefined, g.out.calls))
    /\ UNCHANGED clock

\* FileSystemAccess.ts:178.  mode is "none" (a number, a string such as 'wx',
\* or nothing: no flag field), or the flag of a mode object.
Modes == {"none", "w"}

overwrite(mode) == mode = "w"

\* FileSystemAccess.ts:177-185: up to the request that creates the
\* directory.  Both getHandle calls run before that request is made; a walk
\* the first one left running may be answered before or after it.
mkdir(p, mode) ==
    /\ CanStart
    /\ nOps' = nOps + 1
    /\ UNCHANGED <<rvars, file>>
    /\ \E g \in {getHandle(tree, _handles, p, nextHid)} :
       LET existingHandle == g.ret
           err == IF g.out.err # NoError THEN g.out.err
                  ELSE IF existingHandle # NoHandle /\ ~overwrite(mode) THEN Err("EEXIST", p)
                  ELSE NoError
           g2 == getHandle(tree, g.out.handles, dirname(p), g.out.hid)
           both == [g2.out EXCEPT !.walks = @ \cup g.out.walks,
                                  !.unhandled = @ \cup g.out.unhandled,
                                  !.calls = @ + g.out.calls]
       IN IF err # NoError
          THEN /\ Walked(g.out)
               /\ Completes(Outcome("mkdir", p, << >>, mode, Pre(p), err, RetUndefined,
                                    g.out.calls))
          ELSE IF g2.out.err # NoError \/ g2.ret.kind # "dir"
          THEN /\ Walked(both)
               /\ Completes(Outcome("mkdir", p, << >>, mode, Pre(p), g2.out.err,
                                    RetUndefined, both.calls))
          ELSE /\ Walked(both)
               /\ pc' = "mkdir"
               /\ frame' = [path |-> p, mode |-> mode, pre |-> Pre(p), parent |-> g2.ret,
                            calls |-> both.calls + 1]
               /\ UNCHANGED <<last, prev>>
    /\ UNCHANGED <<tree, clock>>

\* FileSystemAccess.ts:186-188: handle.getDirectoryHandle(basename(p),
\* { create: true }) answers.
mkdirCreate ==
    /\ pc = "mkdir"
    /\ UNCHANGED wvars
    /\ LET handle == frame.parent
           target == join(handle.path, basename(frame.path))
           err == ApiCreateError(tree, handle, basename(frame.path), "dir")
       IN /\ tree' = IF err = NoError THEN [tree EXCEPT ![target] = DirEntry] ELSE tree
          /\ nextHid' = IF err = NoError THEN nextHid + 1 ELSE nextHid
          /\ Completes(Outcome("mkdir", frame.path, << >>, frame.mode, frame.pre, err,
                               RetUndefined, frame.calls))
    /\ UNCHANGED <<clock, _handles, walks, unhandled, nOps, rvars, file>>

\* FileSystemAccess.ts:91: join(oldPath, file), where file is a path readdir
\* returned (line 198), absolute already.
joinPath(path, childPath) == path \o childPath

\* b after a: the walks and rejections of both, the cache and the handle
\* counter as b left them.
Then(a, b) ==
    [b EXCEPT !.walks = @ \cup a.walks, !.unhandled = @ \cup a.unhandled,
              !.calls = @ + a.calls]

\* FileSystemAccess.ts:162-171, as rename calls it: the error it throws, the
\* tree afterwards, and what its getHandle did.
unlinkCall(t, cache, path, hid) ==
    LET g == getHandle(t, cache, dirname(path), hid)
        handle == g.ret
        removes == g.out.err = NoError /\ handle.kind = "dir"
        target == join(handle.path, basename(path))
        err == IF g.out.err # NoError THEN g.out.err
               ELSE IF removes /\ (KindAt(t, handle.path) # "dir" \/ KindAt(t, target) = "none")
               THEN handleError(path, Err("NotFoundError", target))
               ELSE NoError
    IN [err |-> err,
        tree |-> IF removes /\ err = NoError THEN RemoveSubtree(t, target) ELSE t,
        out |-> g.out]

\* How far a call of rename gets before it waits for a request that changes
\* the tree while walks or a close may be running.  kind "throw": err is
\* thrown into the catch of line 109; "return": the call is over; "wait":
\* the call is suspended as frame.
RenameResult(kind, err, t, clk, out, fr, closes) ==
    [kind |-> kind, err |-> err, tree |-> t, clock |-> clk, out |-> out, frame |-> fr,
     closing |-> closes]

Throws(err, t, clk, out) == RenameResult("throw", err, t, clk, out, NoRenameFrame, {})

\* FileSystemAccess.ts:83-94: the directory branch up to the request that
\* creates the destination (mkdir, lines 177-189, with mode 'wx': a string
\* has no flag field).
renameDirectory(t, clk, out0, handle, oldPath, newPath) ==
    LET keys == {n \in Names : KindAt(t, join(handle.path, n)) # "none"}
        files == {join(oldPath, key) : key \in keys}
        g == getHandle(t, out0.handles, newPath, out0.hid)
        out1 == Then(out0, g.out)
        g2 == getHandle(t, g.out.handles, dirname(newPath), g.out.hid)
        out2 == Then(out1, g2.out)
        next == IF files = {} THEN "unlink" ELSE "child"
    IN  IF KindAt(t, handle.path) # "dir"
        THEN Throws(Err("NotFoundError", handle.path), t, clk, out0)
        ELSE IF g.out.err # NoError THEN Throws(g.out.err, t, clk, out1)
        ELSE IF g.ret # NoHandle /\ ~overwrite("none")
        THEN Throws(Err("EEXIST", newPath), t, clk, out1)
        ELSE IF g2.out.err # NoError THEN Throws(g2.out.err, t, clk, out2)
        ELSE IF g2.ret.kind # "dir"
        THEN RenameResult("wait", NoError, t, clk, out2,
                          RenameFrame(oldPath, newPath, files, next, NoHandle), {})
        ELSE RenameResult("wait", NoError, t, clk, [out2 EXCEPT !.calls = @ + 1],
                          RenameFrame(oldPath, newPath, files, "mkdir", g2.ret), {})

\* FileSystemAccess.ts:96-106: the file branch up to writable.close(), which
\* is called and not awaited.  getFileHandle with create makes an empty file
\* when there is none; the bytes written go to the stream and reach the file
\* when the close commits.
renameFile(t, clk, out0, handle, oldPath, newPath) ==
    LET g == getHandle(t, out0.handles, dirname(newPath), out0.hid)
        out1 == Then(out0, g.out)
        destFolder == g.ret
        target == join(destFolder.path, basename(newPath))
        cerr == ApiCreateError(t, destFolder, basename(newPath), "file")
        creates == KindAt(t, target) = "none"
    IN  IF KindAt(t, handle.path) # "file"
        THEN Throws(Err("NotFoundError", handle.path), t, clk, out0)
        ELSE IF g.out.err # NoError THEN Throws(g.out.err, t, clk, out1)
        ELSE IF destFolder.kind # "dir"
        THEN RenameResult("return", NoError, t, clk, out1, NoRenameFrame, {})
        ELSE IF cerr # NoError THEN Throws(cerr, t, clk, [out1 EXCEPT !.calls = @ + 1])
        ELSE IF target \notin DOMAIN t
        THEN Throws(Err("QuotaExceededError", target), t, clk, out1)
        ELSE RenameResult("wait", NoError,
                          IF creates THEN [t EXCEPT ![target] = FileEntry(<< >>, clk + 1)] ELSE t,
                          IF creates THEN clk + 1 ELSE clk,
                          [out1 EXCEPT !.calls = @ + 1, !.hid = @ + 1],
                          RenameFrame(oldPath, newPath, {}, "unlink", NoHandle),
                          {Close(target, t[handle.path].data, handle.path)})

\* FileSystemAccess.ts:81-96: a call of rename, from its start.
renameCall(t, cache, hid, clk, oldPath, newPath) ==
    LET g == getHandle(t, cache, oldPath, hid)
        handle == g.ret
    IN  IF g.out.err # NoError THEN Throws(g.out.err, t, clk, g.out)
        ELSE IF handle.kind = "dir" THEN renameDirectory(t, clk, g.out, handle, oldPath, newPath)
        ELSE IF handle.kind = "file" THEN renameFile(t, clk, g.out, handle, oldPath, newPath)
        ELSE RenameResult("return", NoError, t, clk, g.out, NoRenameFrame, {})

\* The caller's operation after the innermost call of rename got as far as
\* r, with the calls in callers waiting for it.  What is thrown passes the
\* catch of every call (FileSystemAccess.ts:109-111): the innermost one, on
\* oldPath, turns a NotFoundError into ENOENT, the others pass it on.
RenameContinues(r, oldPath, callers, op) ==
    /\ tree' = r.tree
    /\ clock' = r.clock
    /\ Walked(r.out)
    /\ closing' = closing \cup r.closing
    /\ LET done(err) == Outcome("rename", op.path, << >>, "none", op.pre, err,
                                RetUndefined, op.calls + r.out.calls)
       IN  IF r.kind = "throw"
           THEN stack' = << >> /\ Completes(done(handleError(oldPath, r.err)))
           ELSE IF r.kind = "return" /\ callers = << >>
           THEN stack' = << >> /\ Completes(done(NoError))
           ELSE /\ stack' = IF r.kind = "return" THEN callers ELSE <<r.frame>> \o callers
                /\ pc' = "rename"
                /\ frame' = [op EXCEPT !.calls = @ + r.out.calls]
                /\ UNCHANGED <<last, prev>>

\* FileSystemAccess.ts:80-112: the caller starts a rename.
rename(oldPath, newPath) ==
    /\ CanStart
    /\ nOps' = nOps + 1
    /\ ren' = Rename(oldPath, newPath, tree[oldPath], Under(tree, oldPath))
    /\ UNCHANGED file
    /\ \E r \in {renameCall(tree, _handles, nextHid, clock, oldPath, newPath)} :
          RenameContinues(r, oldPath, << >>,
                          [NoFrame EXCEPT !.path = oldPath, !.pre = Pre(oldPath)])

\* FileSystemAccess.ts:186-188, in the mkdir of line 87: the request that
\* creates the destination directory answers.
renameMkdir ==
    /\ pc = "rename" /\ Head(stack).stage = "mkdir"
    /\ UNCHANGED <<wvars, nOps, ren, file>>
    /\ LET call == Head(stack)
           name == basename(call.newPath)
           target == join(call.parent.path, name)
           err == ApiCreateError(tree, call.parent, name, "dir")
           none == WalkOut(NoError, _handles, {}, {}, nextHid, 0)
           next == [call EXCEPT !.stage = IF call.files = {} THEN "unlink" ELSE "child"]
       IN  IF err # NoError
           THEN RenameContinues(Throws(err, tree, clock, none), call.oldPath, Tail(stack), frame)
           ELSE RenameContinues(
                    RenameResult("wait", NoError, [tree EXCEPT ![target] = DirEntry], clock,
                                 [none EXCEPT !.hid = @ + 1], next, {}),
                    call.oldPath, Tail(stack), frame)

\* FileSystemAccess.ts:90-91: a round of the loop starts, in the order the
\* directory iterator gave: rename(join(oldPath, file), join(newPath, file)).
\* The caller goes on with line 92 when that call is over.
renameChild ==
    /\ pc = "rename" /\ Head(stack).stage = "child"
    /\ UNCHANGED <<wvars, nOps, ren, file>>
    /\ \E childPath \in Head(stack).files :
          LET call == Head(stack)
              waits == [call EXCEPT !.files = @ \ {childPath}, !.stage = "unlink"]
              childOld == joinPath(call.oldPath, childPath)
          IN \E r \in {renameCall(tree, _handles, nextHid, clock, childOld,
                                  joinPath(call.newPath, childPath))} :
                RenameContinues(r, childOld, <<waits>> \o Tail(stack), frame)

\* FileSystemAccess.ts:89, 92, 106: await this.unlink(oldPath).  After it the
\* call is over, or the loop goes on with the next child.
renameUnlink ==
    /\ pc = "rename" /\ Head(stack).stage = "unlink"
    /\ UNCHANGED <<wvars, nOps, ren, file>>
    /\ LET call == Head(stack) IN
       \E u \in {unlinkCall(tree, _handles, call.oldPath, nextHid)} :
          IF u.err # NoError
          THEN RenameContinues(Throws(u.err, u.tree, clock, u.out), call.oldPath,
                               Tail(stack), frame)
          ELSE IF call.files = {}
          THEN RenameContinues(RenameResult("return", NoError, u.tree, clock, u.out,
                                            NoRenameFrame, {}),
                               call.oldPath, Tail(stack), frame)
          ELSE RenameContinues(RenameResult("wait", NoError, u.tree, clock, u.out,
                                            [call EXCEPT !.stage = "child"], {}),
                               call.oldPath, Tail(stack), frame)

\* FileSystemAccess.ts:105: a close nobody awaits commits, at any later
\* time: the file gets the bytes of the stream.  When the file is gone the
\* close rejects, and nobody sees it.
closeCommits(c) ==
    /\ c \in closing
    /\ closing' = closing \ {c}
    /\ IF KindAt(tree, c.path) = "file"
       THEN /\ tree' = [tree EXCEPT ![c.path] = FileEntry(c.data, clock + 1)]
            /\ clock' = clock + 1
            /\ UNCHANGED unhandled
       ELSE /\ unhandled' = unhandled \cup {"NotFoundError"}
            /\ UNCHANGED <<tree, clock>>
    /\ UNCHANGED <<_handles, walks, nextHid, pc, frame, last, prev, nOps, stack, ren, file>>
    /\ UNCHANGED wvars

NextFS ==
    \/ \E w \in walks : WalkStep(w)
    \/ \E path \in Paths : ResolveOp(path)
    \/ \E path \in Paths : stat(path)
    \/ \E path \in Paths : exists(path)
    \/ \E path \in Paths : openFile(path)
    \/ \E path \in Paths : readdir(path)
    \/ \E path \in Paths \ {Root}, data \in Data : writeFile(path, data)
    \/ \E path \in Paths \ {Root} : unlink(path)
    \/ \E path \in Paths \ {Root}, mode \in Modes : mkdir(path, mode)
    \/ mkdirCreate

\* FileSystemAccess.ts:173-175: rmdir returns what unlink returns.
rmdir(path) ==
    /\ CanStart
    /\ nOps' = nOps + 1
    /\ UNCHANGED <<rvars, file>>
    /\ \E u \in {unlinkCall(tree, _handles, path, nextHid)} :
       /\ Walked(u.out)
       /\ tree' = u.tree
       /\ Completes(Outcome("rmdir", path, << >>, "none", Pre(path), u.err, RetUndefined,
                            u.out.calls))
    /\ UNCHANGED clock

\* Every operation that resolves a path or changes the tree.
NextCache ==
    \/ \E w \in walks : WalkStep(w)
    \/ \E c \in closing : closeCommits(c)
    \/ \E path \in Paths : ResolveOp(path)
    \/ \E path \in Paths \ {Root}, data \in Data : writeFile(path, data)
    \/ \E path \in Paths \ {Root}, mode \in Modes : mkdir(path, mode)
    \/ mkdirCreate
    \/ \E path \in Paths \ {Root} : unlink(path)
    \/ \E path \in Paths \ {Root} : rmdir(path)
    \/ \E oldPath, newPath \in Paths \ {Root} : rename(oldPath, newPath)
    \/ renameMkdir
    \/ renameChild
    \/ renameUnlink

\* rename, with the resolutions that fill the cache before it and the
\* operations that look at the tree after it.
NextRename ==
    \/ \E w \in walks : WalkStep(w)
    \/ \E c \in closing : closeCommits(c)
    \/ \E path \in Paths : ResolveOp(path)
    \/ \E path \in Paths : stat(path)
    \/ \E path \in Paths : readdir(path)
    \/ \E oldPath, newPath \in Paths \ {Root} : rename(oldPath, newPath)
    \/ renameMkdir
    \/ renameChild
    \/ renameUnlink

\* --- sync (FileSystemAccess.ts:36-41, 73-78)
\* FileSystemAccess.ts:130-142, as _sync calls it: the error, the Stats, and
\* what its getHandle did.
statCall(t, cache, path, hid) ==
    LET g == getHandle(t, cache, path, hid)
        handle == g.ret
        err == IF g.out.err # NoError THEN g.out.err
               ELSE IF handle = NoHandle THEN Err("EINVAL", path)
               ELSE IF handle.kind = "file" /\ KindAt(t, handle.path) # "file"
               THEN Err("NotFoundError", handle.path)
               ELSE NoError
    IN [err |-> err,
        ret |-> IF err # NoError THEN RetUndefined
                ELSE IF handle.kind = "dir" THEN StatsDirectory
                ELSE StatsFile(t[handle.path]),
        out |-> g.out]

\* FileSystemAccess.ts:114-123, as _sync calls it: the error, the tree and
\* its time afterwards, whether the file was written, and what its getHandle
\* did.
writeFileCall(t, clk, cache, fname, data, hid) ==
    LET g == getHandle(t, cache, dirname(fname), hid)
        handle == g.ret
        writes == g.out.err = NoError /\ handle.kind = "dir"
        err == IF g.out.err # NoError THEN g.out.err
               ELSE IF writes THEN ApiCreateError(t, handle, basename(fname), "file")
               ELSE NoError
        target == join(handle.path, basename(fname))
        written == writes /\ err = NoError
    IN [err |-> err,
        tree |-> IF written THEN [t EXCEPT ![target] = FileEntry(data, clk + 1)] ELSE t,
        clock |-> IF written THEN clk + 1 ELSE clk,
        written |-> written,
        out |-> [g.out EXCEPT !.hid = IF written THEN @ + 1 ELSE @,
                              !.calls = @ + (IF writes THEN 1 ELSE 0)]]

\* FileSystemAccess.ts:75: stats.mtime !== currentStats.mtime.  Stats is not
\* part of this repository; the two modification times are compared as
\* times, which is how the specification describes the test.
mtimeDiffers(stats, currentStats) == stats.mtime # currentStats.mtime

\* A write to the open file (PreloadFile.write): the buffer holds data, the
\* file is dirty.
write(data) ==
    /\ pc = "idle"
    /\ file.open
    /\ file' = [file EXCEPT !.buffer = data, !.dirty = TRUE]
    /\ UNCHANGED <<tree, clock, _handles, walks, unhandled, nextHid, pc, frame, last, prev,
                   nOps, rvars>>
    /\ UNCHANGED wvars

\* FileSystemAccess.ts:36-41 with _sync, lines 73-78; close (lines 43-45)
\* awaits the same call.  A clean file is left alone.  For a dirty one _sync
\* stats the path and writes the buffer when the times differ; when _sync
\* has returned, resetDirty() runs.
sync ==
    /\ CanStart
    /\ file.open
    /\ nOps' = nOps + 1
    /\ UNCHANGED rvars
    /\ LET p == file.path
           none == WalkOut(NoError, _handles, {}, {}, nextHid, 0)
           done(err, calls) == Outcome("sync", p, file.buffer, "none", Pre(p), err,
                                       RetUndefined, calls)
       IN  IF ~file.dirty
           THEN /\ Walked(none)
                /\ Completes(done(NoError, 0))
                /\ UNCHANGED <<tree, clock, file>>
           ELSE \E currentStats \in {statCall(tree, _handles, p, nextHid)} :
                IF currentStats.err # NoError
                THEN /\ Walked(currentStats.out)
                     /\ Completes(done(currentStats.err, currentStats.out.calls))
                     /\ UNCHANGED <<tree, clock, file>>
                ELSE IF ~mtimeDiffers(file, currentStats.ret)
                THEN /\ Walked(currentStats.out)
                     /\ Completes(done(NoError, currentStats.out.calls))
                     /\ file' = [file EXCEPT !.dirty = FALSE]
                     /\ UNCHANGED <<tree, clock>>
                ELSE \E w \in {writeFileCall(tree, clock, currentStats.out.handles, p,
                                             file.buffer, currentStats.out.hid)} :
                     /\ Walked(Then(currentStats.out, w.out))
                     /\ Completes(done(w.err, currentStats.out.calls + w.out.calls))
                     /\ tree' = w.tree
                     /\ clock' = w.clock
                     /\ file' = IF w.err = NoError THEN [file EXCEPT !.dirty = FALSE]
                                ELSE file

\* A file wrapper, with the resolutions that make openFile find the file and
\* the writes that change the file behind the wrapper.
NextSync ==
    \/ \E w \in walks : WalkStep(w)
    \/ \E path \in Paths : ResolveOp(path)
    \/ \E path \in Paths : openFile(path)
    \/ \E path \in Paths \ {Root}, data \in Data : writeFile(path, data)
    \/ \E data \in Data : write(data)
    \/ sync

\* --- the specifications: each backend on its own, the other at rest.
InitWorkerOnly == InitWorker /\ InitFSOver({MakeTree({}, {})})

SpecWorker == InitWorkerOnly /\ [][NextWorker]_vars

InitFSA == InitWorker /\ InitFSOver(InitTrees)

SpecFSA == InitFSA /\ [][NextFS]_vars

\* The trees rename is run over: a file under the root; a directory with
\* two files, next to an empty directory.
RenameTrees ==
    { MakeTree({}, {<<"a">>}),
      MakeTree({<<"a">>, <<"b">>}, {<<"a", "a">>, <<"a", "b">>}) }

InitRename == InitWorker /\ InitFSOver(RenameTrees)

SpecRename == InitRename /\ [][NextRename]_vars

SpecCache == InitFSA /\ [][NextCache]_vars

SpecSync == InitFSA /\ [][NextSync]_vars

\* ================================================================== claims

\* --- helpers of the WorkerFS claims
\* The calls made so far, by call number; call k posted posted[k].
Calls == 1 .. Len(posted)

IssuedIds == { posted[k].id : k \in Calls }

\* The call that was registered under id i.
CallOf(i) == CHOOSE k \in Calls : posted[k].id = i

\* This step is a run of onmessage.
Delivered == nDelivered' = nDelivered + 1

\* event.data carries the protocol marker.
HasMarker(data) == data.shape = "object" /\ data.isBFS = "truthy"

\* This step delivers a marked, non-metadata message whose id is pending.
MatchingResponse ==
    /\ Delivered
    /\ HasMarker(event')
    /\ event'.method # "metadata"
    /\ event'.id \in DOMAIN _requests

\* C1: every call of a public operation takes an id no earlier request used,
\* registers one pending entry under it and posts one request carrying it;
\* an id leaves the pending set at most once, and only by a response that
\* carries that id: an issued id is either still pending or was removed by
\* exactly one onmessage run.
C1_IdsUniqueRemovedOnce ==
    /\ \A i, j \in Calls : i # j => posted[i].id # posted[j].id
    /\ _currentID = Len(posted)
    /\ \A k \in 1 .. MaxCalls : (promises[k].state # "none") <=> (k \in Calls)
    /\ \A k \in Calls :
          /\ posted[k].isBFS
          /\ posted[k].method = promises[k].method
          /\ (promises[k].state = "pending") <=>
                (posted[k].id \in DOMAIN _requests /\ _requests[posted[k].id] = k)
    /\ DOMAIN _requests \subseteq IssuedIds
    /\ \A i \in Ids :
          /\ Cardinality(removedBy[i]) <= 1
          /\ (removedBy[i] # {}) <=> (i \in IssuedIds /\ i \notin DOMAIN _requests)
          /\ \A r \in removedBy[i] : r.id = i

\* C1 witness: two calls were made, id 0 was removed by one response, and a
\* second response carrying id 0 has just been delivered.
C1_Witness ==
    /\ Len(posted) = 2
    /\ removedBy[0] # {}
    /\ HasMarker(event) /\ event.method # "metadata" /\ event.id = 0
    /\ \A r \in removedBy[0] : r.run < nDelivered

\* C2: a response carrying id i completes the operation registered with id
\* i, with the response's value, whatever method the response names and
\* whatever the order of the requests; every other operation is left as it
\* was, and only i leaves the pending set.
C2_MatchedById ==
    [][ MatchingResponse =>
            LET k == CallOf(event'.id) IN
            /\ promises[k].state = "pending"
            /\ promises'[k].state \in {"resolved", "rejected"}
            /\ promises'[k].value = event'.value
            /\ \A j \in 1 .. MaxCalls : j # k => promises'[j] = promises[j]
            /\ _requests' = Without(_requests, event'.id) ]_wvars

\* C2 witness: the later request (id 1) has been answered while the earlier
\* one (id 0) is still pending, by a response naming another method than the
\* request did.
C2_Witness ==
    /\ Len(posted) = 2
    /\ event.id = 1 /\ HasMarker(event) /\ event.method \in Methods
    /\ event.method # posted[2].method
    /\ promises[2].state = "resolved" /\ promises[2].value = event.value
    /\ promises[1].state = "pending"
    /\ 0 \in DOMAIN _requests

\* C3: a message without the protocol marker (isBFS absent or falsy, or no
\* object at all) changes neither the pending set, nor any operation's
\* completion state, nor the stored metadata, nor the initialized flag.
C3_ForeignMessageIgnored ==
    [][ (Delivered /\ ~HasMarker(event')) =>
            UNCHANGED <<_requests, promises, _metadata, _isInitialized>> ]_wvars

\* C3 witness: an object whose isBFS is falsy and whose id is a pending id
\* has just been delivered.
C3_Witness ==
    /\ nDelivered > 0
    /\ event.shape = "object" /\ event.isBFS = "falsy"
    /\ event.method \in Methods
    /\ event.id \in DOMAIN _requests

\* C4: a non-metadata response whose id is pending settles that operation
\* once: rejected with the value when the value is an error object, resolved
\* with it otherwise; the pending entry is gone afterwards.
C4_SettledOnce ==
    [][ /\ \A k \in 1 .. MaxCalls : promises'[k].settles <= 1
        /\ MatchingResponse =>
            LET k == CallOf(event'.id) IN
            /\ promises'[k].state =
                  IF event'.value.t \in {"Error", "ApiError"} THEN "rejected" ELSE "resolved"
            /\ promises'[k].value = event'.value
            /\ promises'[k].settles = 1
            /\ event'.id \notin DOMAIN _requests' ]_wvars

\* C4 witness: one operation was rejected with an Error value and another
\* resolved with a plain value.
C4_Witness ==
    /\ \E k \in Calls : promises[k].state = "rejected" /\ promises[k].value.t = "Error"
    /\ \E k \in Calls : promises[k].state = "resolved" /\ promises[k].value.t = "Object"
    /\ _requests = << >>

\* C5: a marked message tagged 'metadata' never completes or removes a
\* pending operation, also when its id is a pending id; each one stores its
\* value as the metadata and sets the initialized flag, which is never reset.
C5_MetadataOnly ==
    [][ /\ _isInitialized => _isInitialized'
        /\ (Delivered /\ HasMarker(event') /\ event'.method = "metadata") =>
            /\ UNCHANGED <<_requests, promises>>
            /\ _metadata' = event'.value
            /\ _isInitialized' ]_wvars

\* C5 witness: a second metadata message, carrying a pending id, has just
\* replaced the metadata stored by the first.
C5_Witness ==
    /\ nMetadata >= 2
    /\ HasMarker(event) /\ event.method = "metadata"
    /\ event.id \in DOMAIN _requests
    /\ _metadata = event.value
    /\ _isInitialized

\* C14: the metadata getter reports name 'WorkerFS' and synchronous = false
\* in every reachable state, whatever the stored metadata is: none yet, or
\* that of any number of metadata messages, also ones announcing another
\* name or synchronous = true.
C14_MetadataNameAndAsync ==
    /\ metadata(_metadata).name = "WorkerFS"
    /\ metadata(_metadata).synchronous = FALSE

\* C14 witness: two metadata messages have arrived and the stored metadata
\* announces another name and synchronous = true.
C14_Witness ==
    /\ nMetadata >= 2
    /\ _isInitialized
    /\ _metadata.t = "Object" /\ _metadata.name = "InMemory" /\ _metadata.synchronous
    /\ metadata(_metadata) = Value("Object", "WorkerFS", FALSE)

\* C20: a marked, non-metadata response whose id matches no pending
\* operation (never issued, or already answered) makes the handler raise
\* while it looks the id up: no pending entry is removed, no operation is
\* settled, and every pending operation stays pending.
C20_UnmatchedResponseRaises ==
    [][ (/\ Delivered
         /\ HasMarker(event')
         /\ event'.method # "metadata"
         /\ event'.id \notin DOMAIN _requests) =>
            /\ raised'
            /\ UNCHANGED <<_requests, promises, removedBy>> ]_wvars

\* C20 witness: id 0 was answered by an earlier response, a second response
\* carrying id 0 has just made the handler raise, and the operation with id 1
\* is still pending.
C20_Witness ==
    /\ raised
    /\ HasMarker(event) /\ event.method # "metadata" /\ event.id = 0
    /\ \E r \in removedBy[0] : r.run < nDelivered
    /\ 1 \in DOMAIN _requests
    /\ promises[_requests[1]].state = "pending"

\* --- helpers of the FileSystemAccessFileSystem claims
\* This step completes a mkdir: at once, or when the directory request answers.
MkdirCompletes ==
    /\ pc' = "idle"
    /\ last'.op = "mkdir"
    /\ pc = "mkdir" \/ nOps' = nOps + 1

\* C6: for an existing path, two resolutions in a row (nothing changes the
\* tree between them) yield the same handle instance, and the second one makes
\* no getDirectoryHandle/getFileHandle call.
C6_ResolvedTwiceSameHandle ==
    (/\ prev.op = "getHandle" /\ last.op = "getHandle"
     /\ prev.path = last.path
     /\ prev.pre.kind # "none")
    => /\ prev.ret.t = "handle"
       /\ last.ret = prev.ret
       /\ last.calls = 0

\* C7: when the parent directory exists, writeFile(path, data) followed by
\* openFile(path) yields a file wrapper whose content is data.
C7_WriteThenOpenRoundTrip ==
    (/\ prev.op = "writeFile" /\ prev.status = "ok"
     /\ prev.pre.parentKind = "dir"
     /\ last.op = "openFile" /\ last.path = prev.path)
    => /\ last.status = "ok"
       /\ last.ret.t = "File"
       /\ last.ret.data = prev.data

\* C8: mkdir(path) without the overwrite flag, at a path where an entry
\* exists, fails with already-exists and leaves the entry and the handle
\* cached for the path as they were.
C8_MkdirExistingFails ==
    [][ (MkdirCompletes /\ last'.mode = "none" /\ last'.pre.kind # "none") =>
            LET p == last'.path IN
            /\ last'.status = "error" /\ last'.err = Err("EEXIST", p)
            /\ tree'[p] = tree[p]
            /\ p \in DOMAIN _handles =>
                  (p \in DOMAIN _handles' /\ _handles'[p] = _handles[p]) ]_vars

\* C9: mkdir(p), where no entry exists at p and the parent directory exists
\* (the root included), completes without error, and a directory exists at p
\* afterwards.
C9_MkdirCreates ==
    (/\ last.op = "mkdir"
     /\ last.pre.kind = "none" /\ last.pre.parentKind = "dir")
    => /\ last.status = "ok"
       /\ KindAt(tree, last.path) = "dir"

\* C10: stat(p), on every call, the first one on an uncached path included:
\* directory type and size 4096 for a directory, file type with the file's
\* byte size and modification time for a file, not-found when nothing is at p.
C10_StatReportsEntry ==
    last.op = "stat" =>
        LET p == last.path IN
        CASE last.pre.kind = "dir" ->
                /\ last.status = "ok"
                /\ last.ret.t = "DIRECTORY" /\ last.ret.size = 4096
          [] last.pre.kind = "file" ->
                /\ last.status = "ok"
                /\ last.ret.t = "FILE"
                /\ last.ret.size = Len(tree[p].data)
                /\ last.ret.mtime = tree[p].mtime
          [] OTHER ->
                /\ last.status = "error" /\ last.err.code = "ENOENT"

\* C13: exists(p) returns false when no entry exists at p, on every call,
\* the first one and paths with uncached ancestors included, and true when
\* an entry exists at p.
C13_ExistsReportsEntry ==
    last.op = "exists" =>
        last.ret.t = IF last.pre.kind = "none" THEN "false" ELSE "true"

\* C15: an operation that resolves a path whose parent exists but is a file
\* fails with not-a-directory, the error carrying the path (or the segment
\* that is the file).
C15_FileAncestorNotADirectory ==
    (/\ last.op \in {"getHandle", "stat", "openFile", "readdir"}
     /\ last.pre.parentKind = "file")
    => /\ last.status = "error"
       /\ last.err.code = "ENOTDIR"
       /\ last.err.path \in {last.path, dirname(last.path)}

\* C16: the cache maps '/' to the root handle given to the constructor in
\* every reachable state, and no step of any operation (resolution,
\* writeFile, mkdir, unlink, rmdir, rename, or a walk or close they left
\* running) removes a cached path: the set of cached paths only grows.
C16_RootCachedAndCacheGrows ==
    [][ /\ Root \in DOMAIN _handles /\ _handles[Root] = Handle(Root, "dir", 0)
        /\ Root \in DOMAIN _handles' /\ _handles'[Root] = Handle(Root, "dir", 0)
        /\ DOMAIN _handles \subseteq DOMAIN _handles' ]_vars

\* C16 witness: an unlink, rmdir or rename has completed without error, and a
\* path whose entry it removed is still cached, next to '/' and another path.
C16_Witness ==
    /\ pc = "idle"
    /\ last.op \in {"unlink", "rmdir", "rename"} /\ last.status = "ok"
    /\ last.pre.kind # "none"
    /\ KindAt(tree, last.path) = "none"
    /\ last.path \in DOMAIN _handles
    /\ Cardinality(DOMAIN _handles) >= 3
    /\ _handles[Root] = Handle(Root, "dir", 0)

\* C17: whenever sync() on a dirty file ends with the dirty flag cleared,
\* the buffer was written to the tree during that sync and the file stored
\* at the path holds the buffer, also when the modification time the file
\* was opened with equals the file's current one.
C17_CleanOnlyAfterWriteBack ==
    [][ (/\ nOps' = nOps + 1 /\ last'.op = "sync"
         /\ file.dirty /\ ~file'.dirty) =>
            /\ clock' > clock
            /\ KindAt(tree', file.path) = "file"
            /\ tree'[file.path].data = file.buffer ]_vars

\* C18: resolving an uncached path whose parent directory is cached (and
\* still exists) acquires a handle for the last segment only: the path is
\* cached when the resolution completes, one segment was requested, and no
\* cached ancestor is acquired again, so every cache entry stays as it was.
C18_WalkFromDeepestCachedAncestor ==
    [][ (/\ pc = "idle" /\ pc' = "idle" /\ nOps' = nOps + 1
         /\ last'.op = "getHandle"
         /\ Len(last'.path) >= 2
         /\ last'.path \notin DOMAIN _handles
         /\ dirname(last'.path) \in DOMAIN _handles
         /\ KindAt(tree, dirname(last'.path)) = "dir"
         /\ KindAt(tree, last'.path) = "dir") =>
            /\ last'.path \in DOMAIN _handles'
            /\ last'.calls = 1
            /\ \A q \in DOMAIN _handles : _handles'[q] = _handles[q] ]_vars

\* --- helpers of the rename claims
\* The rename started last has completed and nothing has changed the tree
\* since: it is the last operation, or the one before a stat or readdir.
RenameDone(r) ==
    /\ r.op = "rename" /\ r.path = ren.src
    /\ pc = "idle"

\* C11: after rename(src, dst) of an existing file src has completed (dst
\* another path, in an existing directory), src is gone and dst is a file
\* that holds, once the destination writer has committed, the content src
\* had; a readdir of the parent that follows lists dst and not src, and a
\* stat(src) that follows fails with not-found, whether or not src's handle
\* was cached before the rename.
C11_FileRenamed ==
    LET moved(r) == /\ RenameDone(r) /\ r.status = "ok"
                    /\ ren.entry.kind = "file"
                    /\ ren.src # ren.dst
                    /\ KindAt(tree, dirname(ren.dst)) = "dir"
    IN  /\ moved(last) =>
            /\ KindAt(tree, ren.src) = "none"
            /\ KindAt(tree, ren.dst) = "file"
            /\ closing = {} => tree[ren.dst].data = ren.entry.data
        /\ (moved(prev) /\ last.op = "readdir" /\ last.status = "ok") =>
            /\ last.path = dirname(ren.dst) => ren.dst \in last.ret.items
            /\ last.path = dirname(ren.src) => ren.src \notin last.ret.items
        /\ (moved(prev) /\ last.op = "stat" /\ last.path = ren.src) =>
            /\ last.status = "error"
            /\ last.err.code \in {"ENOENT", "NotFoundError"}

\* C12: rename(src, dst) of a directory src whose handle is cached (dst
\* another path outside src): no entry that was under src is lost, each is
\* still under src or is under dst at the same relative path with the same
\* content; and when the rename has completed without error, src is gone, dst
\* is a directory and every entry is under dst.
C12_DirectoryRenamed ==
    LET at(base, u) == base \o u.rel
        kept(base, u) == /\ KindAt(tree, at(base, u)) = u.entry.kind
                         /\ tree[at(base, u)].data = u.entry.data
    IN  (/\ RenameDone(last)
         /\ ren.entry.kind = "dir" /\ last.pre.cached
         /\ ~IsPrefix(ren.src, ren.dst)
         /\ closing = {})
        => /\ \A u \in ren.under : kept(ren.src, u) \/ kept(ren.dst, u)
           /\ last.status = "ok" =>
                /\ KindAt(tree, ren.src) = "none"
                /\ KindAt(tree, ren.dst) = "dir"
                /\ \A u \in ren.under : kept(ren.dst, u)

\* C19: in a rename of a file to another path the source is removed only
\* after the destination writer's close has completed: in no state is the
\* source absent while a close of the destination is still to commit.
C19_SourceRemovedAfterClose ==
    \A c \in closing : c.src # c.path => KindAt(tree, c.src) # "none"

====
